---- MODULE Spec2Model ----
(***************************************************************************)
(* The AI Wargame (src/game.py, src/units.py, src/utils.py,                *)
(* src/ai_logic.py, src/__main__.py): the board, the classification of a   *)
(* coordinate pair into an action, the execution of the action, the turn   *)
(* counter and the win detection; the generation of move candidates and    *)
(* successor states, the cloning of Game objects, the heuristics, the      *)
(* propagation of values over Node trees, the selection of the computer's  *)
(* move and the main loop of the program.                                  *)
(***************************************************************************)
EXTENDS Integers, Sequences, FiniteSets, TLC

VARIABLES board, next_player, turns_played, attacker_has_ai, defender_has_ai,
          removed, raised, last, script

\* the last call of suggest_move: the state it was called in, the time on
\* the clock at its first check and what came out of it
VARIABLE suggested

\* the Game objects with the board lists and the Unit objects they refer to,
\* and the Game object the last step acted on with the number of turns
\* played on Game objects since the opening
VARIABLES unit_objects, board_objects, game_objects, acted

objects == <<unit_objects, board_objects, game_objects, acted>>

\* the Node objects of a tree, the root first, and the last propagation run
\* over it
VARIABLES node_objects, searched

trees == <<node_objects, searched>>

\* the main loop of the program: the place it is at, the game type of its
\* options and the winner its last call of has_winner returned
VARIABLE main

vars == <<board, next_player, turns_played, attacker_has_ai, defender_has_ai,
          removed, raised, last, script, main, suggested, objects, trees>>

(* ---------------- configuration (Options) ---------------- *)

\* Options.dim
dim == 5

\* Options.max_turns
max_turns == 100

\* Options.max_time, in seconds
max_time == 5

\* Options.max_depth
max_depth == 4

\* Options.alpha_beta
alpha_beta == TRUE

\* the picks of random.shuffle that are followed
MaxPick == 2

\* Options.heuristic_choice
heuristic_choice == 1

\* number of turns played freely after the opening
MaxSteps == 2

(* ---------------- utils.py ---------------- *)

Attacker == "Attacker"
Defender == "Defender"
PlayerTeam == {Attacker, Defender}

\* PlayerTeam.next
PlayerTeam_next(p) == IF p = Attacker THEN Defender ELSE Attacker

\* Coord(row, col)
Coord(row, col) == <<row, col>>

\* CoordPair(src, dst)
CoordPair(src, dst) == [src |-> src, dst |-> dst]

Abs(x) == IF x < 0 THEN -x ELSE x

\* Coord.iter_adjacent: up, left, down, right
iter_adjacent(c) ==
    << Coord(c[1] - 1, c[2]), Coord(c[1], c[2] - 1),
       Coord(c[1] + 1, c[2]), Coord(c[1], c[2] + 1) >>

\* Coord.are_equal
are_equal(c1, c2) == c1[1] = c2[1] /\ c1[2] = c2[2]

\* Coord.are_adjacent_cross
are_adjacent_cross(c1, c2) ==
    LET deltaX == Abs(c1[1] - c2[1])
        deltaY == Abs(c1[2] - c2[2])
    IN  IF deltaX > 1 THEN FALSE
        ELSE IF deltaY > 1 THEN FALSE
        ELSE deltaX # deltaY

\* CoordPair.delta
delta(coords) == << coords.dst[1] - coords.src[1], coords.dst[2] - coords.src[2] >>

(* ---------------- units.py ---------------- *)

\* UnitType values index the tables
AI == 0
Tech == 1
Virus == 2
Program == 3
Firewall == 4
UnitType == {AI, Tech, Virus, Program, Firewall}

\* UnitAction members; the enumeration has no member named Invalid
Move == "Move"
Attack == "Attack"
Repair == "Repair"
Kaboom == "Kaboom"
UnitAction == {"InvalidNoExist", "InvalidNoUnderstand", "InvalidNoDiagonal",
               "InvalidNoOwn", "InvalidNoReturnVirus", "InvalidNoReturnTech",
               "InvalidNoDisengage", "InvalidNoUnit", Move, Attack, Repair, Kaboom}

\* what evaluating UnitAction.Invalid yields: the lookup of a name that is
\* not a member raises AttributeError
AttributeError == "AttributeError"
\* UnitAction.Invalid as if the enum had the member
Invalid_is_member == "Invalid"

Invalid == IF "Invalid" \in UnitAction THEN "Invalid" ELSE AttributeError

\* an empty board cell (Python None), shaped like a Unit so cells compare
None == [player |-> "None", type |-> -1, health |-> 0]

\* Unit(player, type, health = 9)
Unit(player, type) == [player |-> player, type |-> type, health |-> 9]

\* Unit.damage_table with every entry equal to its transpose's
damage_table_symmetric ==
    << <<3,3,3,3,1>>,
       <<3,1,6,3,1>>,
       <<3,6,1,6,1>>,
       <<3,3,6,3,1>>,
       <<1,1,1,1,1>> >>

\* Unit.damage_table[actor][target]
damage_table ==
    << <<3,3,3,3,1>>,
       <<1,1,6,1,1>>,
       <<9,6,1,6,1>>,
       <<3,3,3,3,1>>,
       <<1,1,1,1,1>> >>

\* Unit.repair_table[actor][target]
repair_table ==
    << <<0,1,1,0,0>>,
       <<3,0,0,3,3>>,
       <<0,0,0,0,0>>,
       <<0,0,0,0,0>>,
       <<0,0,0,0,0>> >>

\* Unit.is_alive
is_alive(unit) == unit.health > 0

\* Unit.can_move_freely
can_move_freely(unit) == unit.type = Tech \/ unit.type = Virus

\* Unit.mod_health without the floor at 0
Unit_mod_health_no_floor(unit, health_delta) ==
    LET h == unit.health + health_delta
    IN  [unit EXCEPT !.health = IF h > 9 THEN 9 ELSE h]

\* Unit.mod_health
Unit_mod_health(unit, health_delta) ==
    LET h == unit.health + health_delta
    IN  [unit EXCEPT !.health = IF h < 0 THEN 0 ELSE IF h > 9 THEN 9 ELSE h]

\* Unit.damage_amount
damage_amount(self, target) ==
    LET amount == damage_table[self.type + 1][target.type + 1]
    IN  IF target.health - amount < 0 THEN target.health ELSE amount

\* Unit.repair_amount
repair_amount(self, target) ==
    LET amount == repair_table[self.type + 1][target.type + 1]
    IN  IF target.health + amount > 9 THEN 9 - target.health ELSE amount

(* ---------------- game.py: board ---------------- *)

Cells == (0 .. dim - 1) \X (0 .. dim - 1)

\* Game.is_coord_valid
is_coord_valid(coord) ==
    ~ (coord[1] < 0 \/ coord[1] >= dim \/ coord[2] < 0 \/ coord[2] >= dim)

\* Game.get
get(g, coord) == IF is_coord_valid(coord) THEN g.board[coord] ELSE None

\* Game.set
set(g, coord, unit) ==
    IF is_coord_valid(coord) THEN [g EXCEPT !.board[coord] = unit] ELSE g

\* Game.__post_init__: the default layout, later placements overwrite
post_init_placements ==
    LET md == dim - 1
    IN  << <<Coord(0, 0), Unit(Defender, AI)>>,
           <<Coord(1, 0), Unit(Defender, Tech)>>,
           <<Coord(0, 1), Unit(Defender, Tech)>>,
           <<Coord(2, 0), Unit(Defender, Firewall)>>,
           <<Coord(0, 2), Unit(Defender, Firewall)>>,
           <<Coord(1, 1), Unit(Defender, Program)>>,
           <<Coord(md, md), Unit(Attacker, AI)>>,
           <<Coord(md - 1, md), Unit(Attacker, Virus)>>,
           <<Coord(md, md - 1), Unit(Attacker, Virus)>>,
           <<Coord(md - 2, md), Unit(Attacker, Program)>>,
           <<Coord(md, md - 2), Unit(Attacker, Program)>>,
           <<Coord(md - 1, md - 1), Unit(Attacker, Firewall)>> >>

RECURSIVE place(_, _, _)
place(g, placements, i) ==
    IF i > Len(placements) THEN g
    ELSE place(set(g, placements[i][1], placements[i][2]), placements, i + 1)

\* Game(): the state after construction
NewGame ==
    place([board |-> [c \in Cells |-> None],
           next_player |-> Attacker,
           turns_played |-> 0,
           attacker_has_ai |-> TRUE,
           defender_has_ai |-> TRUE,
           removed |-> << >>],
          post_init_placements, 1)

(* ---------------- game.py: unit behaviour ---------------- *)

\* Game.remove_dead that leaves the has-AI flags alone
remove_dead_keeps_flag(g, coord) ==
    LET unit == get(g, coord)
    IN  IF unit = None THEN g
        ELSE IF is_alive(unit) = FALSE
        THEN [set(g, coord, None) EXCEPT !.removed = Append(@, unit)]
        ELSE g

\* Game.remove_dead that assigns the flag of the dead unit's team from the
\* type test instead of clearing it under the test
remove_dead_flag_from_type(g, coord) ==
    LET unit == get(g, coord)
    IN  IF unit = None THEN g
        ELSE IF is_alive(unit) = FALSE
        THEN LET g1 == [set(g, coord, None) EXCEPT !.removed = Append(@, unit)]
             IN  IF unit.player = Attacker
                 THEN [g1 EXCEPT !.attacker_has_ai = (unit.type # AI)]
                 ELSE [g1 EXCEPT !.defender_has_ai = (unit.type # AI)]
        ELSE g

\* Game.remove_dead; g.removed collects the Unit objects taken off the board
remove_dead(g, coord) ==
    LET unit == get(g, coord)
    IN  IF unit = None THEN g
        ELSE IF is_alive(unit) = FALSE
        THEN LET g1 == [set(g, coord, None) EXCEPT !.removed = Append(@, unit)]
             IN  IF unit.type = AI
                 THEN IF unit.player = Attacker
                      THEN [g1 EXCEPT !.attacker_has_ai = FALSE]
                      ELSE [g1 EXCEPT !.defender_has_ai = FALSE]
                 ELSE g1
        ELSE g

\* Game.mod_health without the call of remove_dead
mod_health_keeps_dead(g, coord, health_delta) ==
    LET target == get(g, coord)
    IN  IF target # None
        THEN set(g, coord, Unit_mod_health(target, health_delta))
        ELSE g

\* Game.mod_health
mod_health(g, coord, health_delta) ==
    LET target == get(g, coord)
    IN  IF target # None
        THEN remove_dead(set(g, coord, Unit_mod_health(target, health_delta)), coord)
        ELSE g

\* Game.destroy
destroy(g, coord) ==
    LET target == get(g, coord)
    IN  IF target # None
        THEN remove_dead(set(g, coord, [target EXCEPT !.health = -1]), coord)
        ELSE g

\* Game.explode: the 3x3 tiles around blast_point, row by row
RECURSIVE explode_from(_, _, _)
explode_from(g, blast_point, i) ==
    IF i >= 9 THEN g
    ELSE LET x == i \div 3
             y == i % 3
             exploding_tile == Coord(blast_point[1] - 1 + x, blast_point[2] - 1 + y)
         IN  explode_from(mod_health(g, exploding_tile, -2), blast_point, i + 1)

\* Game.explode over the blast point and its four orthogonal neighbours only
explode_cross(g, blast_point) ==
    LET adj == iter_adjacent(blast_point)
    IN  mod_health(mod_health(mod_health(mod_health(mod_health(g,
            blast_point, -2), adj[1], -2), adj[2], -2), adj[3], -2), adj[4], -2)

explode(g, blast_point) == explode_from(g, blast_point, 0)

\* the engagement loop of Game.determine_action: some adjacent tile holds an
\* enemy of the acting unit
is_engaged(g, coords, actingUnit) ==
    \E i \in 1 .. 4 :
        LET adjacentUnit == get(g, iter_adjacent(coords.src)[i])
        IN  adjacentUnit # None /\ actingUnit.player # adjacentUnit.player

\* Game.determine_action: the UnitAction returned, or AttributeError where
\* the code evaluates UnitAction.Invalid
determine_action(g, coords) ==
    IF ~ is_coord_valid(coords.src) \/ ~ is_coord_valid(coords.dst) THEN Invalid
    ELSE LET actingUnit == get(g, coords.src)
             otherUnit == get(g, coords.dst)
             deltaX == delta(coords)[1]
             deltaY == delta(coords)[2]
         IN  IF actingUnit = None THEN Invalid
             ELSE IF actingUnit.player # g.next_player THEN Invalid
             ELSE IF are_equal(coords.src, coords.dst) THEN Kaboom
             ELSE IF ~ are_adjacent_cross(coords.src, coords.dst) THEN Invalid
             ELSE IF otherUnit = None
                  THEN IF ~ can_move_freely(actingUnit)
                       THEN IF actingUnit.player = Defender /\ (deltaX < 0 \/ deltaY < 0)
                            THEN Invalid
                            ELSE IF actingUnit.player = Attacker /\ (deltaX > 0 \/ deltaY > 0)
                            THEN Invalid
                            ELSE IF is_engaged(g, coords, actingUnit) THEN Invalid
                            ELSE Move
                       ELSE Move
             ELSE IF otherUnit.player # g.next_player THEN Attack
             ELSE IF otherUnit.player = g.next_player /\ repair_amount(actingUnit, otherUnit) > 0
                  THEN Repair
             ELSE Invalid

\* Game.perform_move whose Move leaves the unit in the source cell as well
perform_move_keeps_source(g, coords, action) ==
    LET actingUnit == get(g, coords.src)
        otherUnit == get(g, coords.dst)
    IN  IF action = Move
        THEN [game |-> set(g, coords.dst, actingUnit), success |-> TRUE]
        ELSE IF action = Kaboom
        THEN [game |-> explode(destroy(g, coords.dst), coords.dst), success |-> TRUE]
        ELSE IF action = Attack
        THEN LET g1 == mod_health(g, coords.dst, - damage_amount(actingUnit, otherUnit))
                 otherAfter == Unit_mod_health(otherUnit, - damage_amount(actingUnit, otherUnit))
                 g2 == mod_health(g1, coords.src, - damage_amount(otherAfter, actingUnit))
             IN  [game |-> g2, success |-> TRUE]
        ELSE IF action = Repair
        THEN LET health_value == repair_amount(actingUnit, otherUnit)
             IN  [game |-> set(g, coords.dst, Unit_mod_health(otherUnit, health_value)),
                  success |-> TRUE]
        ELSE [game |-> g, success |-> FALSE]

\* Game.perform_move whose Attack takes the retaliating unit from the board
\* after the first blow, so that a target that died does not strike back
perform_move_dead_target_silent(g, coords, action) ==
    LET actingUnit == get(g, coords.src)
        otherUnit == get(g, coords.dst)
    IN  IF action = Move
        THEN [game |-> set(set(g, coords.dst, actingUnit), coords.src, None), success |-> TRUE]
        ELSE IF action = Kaboom
        THEN [game |-> explode(destroy(g, coords.dst), coords.dst), success |-> TRUE]
        ELSE IF action = Attack
        THEN LET g1 == mod_health(g, coords.dst, - damage_amount(actingUnit, otherUnit))
                 otherAfter == get(g1, coords.dst)
                 g2 == IF otherAfter = None THEN g1
                       ELSE mod_health(g1, coords.src, - damage_amount(otherAfter, actingUnit))
             IN  [game |-> g2, success |-> TRUE]
        ELSE IF action = Repair
        THEN LET health_value == repair_amount(actingUnit, otherUnit)
             IN  [game |-> set(g, coords.dst, Unit_mod_health(otherUnit, health_value)),
                  success |-> TRUE]
        ELSE [game |-> g, success |-> FALSE]

\* Game.perform_move: the state after the action and the success flag
perform_move(g, coords, action) ==
    LET actingUnit == get(g, coords.src)
        otherUnit == get(g, coords.dst)
    IN  IF action = Move
        THEN [game |-> set(set(g, coords.dst, actingUnit), coords.src, None), success |-> TRUE]
        ELSE IF action = Kaboom
        THEN [game |-> explode(destroy(g, coords.dst), coords.dst), success |-> TRUE]
        ELSE IF action = Attack
        THEN LET g1 == mod_health(g, coords.dst, - damage_amount(actingUnit, otherUnit))
                 otherAfter == Unit_mod_health(otherUnit, - damage_amount(actingUnit, otherUnit))
                 g2 == mod_health(g1, coords.src, - damage_amount(otherAfter, actingUnit))
             IN  [game |-> g2, success |-> TRUE]
        ELSE IF action = Repair
        THEN LET health_value == repair_amount(actingUnit, otherUnit)
             IN  [game |-> set(g, coords.dst, Unit_mod_health(otherUnit, health_value)),
                  success |-> TRUE]
        ELSE [game |-> g, success |-> FALSE]

\* Game.next_turn leaving the turn to the same team
next_turn_keeps_player(g) ==
    [g EXCEPT !.turns_played = g.turns_played + 1]

\* Game.next_turn leaving the count of turns as it is
next_turn_keeps_turns_played(g) ==
    [g EXCEPT !.next_player = PlayerTeam_next(g.next_player)]

\* Game.next_turn
next_turn(g) ==
    [g EXCEPT !.next_player = PlayerTeam_next(g.next_player),
              !.turns_played = g.turns_played + 1]

\* Game.has_winner comparing the turn counter with > instead of >=
has_winner_past_limit(g) ==
    IF g.turns_played > max_turns THEN "Defender"
    ELSE IF g.attacker_has_ai
         THEN IF g.defender_has_ai THEN "None" ELSE "Attacker"
         ELSE "Defender"

\* Game.has_winner testing the Defender's flag before the Attacker's
has_winner_defender_flag_first(g) ==
    IF g.turns_played >= max_turns THEN "Defender"
    ELSE IF g.defender_has_ai
         THEN IF g.attacker_has_ai THEN "None" ELSE "Defender"
         ELSE "Attacker"

\* Game.has_winner: a team, or None
NoWinner == "None"
has_winner(g) ==
    IF g.turns_played >= max_turns THEN Defender
    ELSE IF g.attacker_has_ai
         THEN IF g.defender_has_ai THEN NoWinner ELSE Attacker
         ELSE Defender

(* ---------------- game.py: a turn ---------------- *)

\* Game.attempt_move followed, on success, by Game.next_turn, as in
\* Game.human_turn / Game.computer_turn; g.removed restarts with the action
played(g, mv) ==
    LET r == perform_move([g EXCEPT !.removed = << >>], mv, determine_action(g, mv))
    IN  IF r.success THEN next_turn(r.game) ELSE r.game

RECURSIVE Repeat(_, _)
Repeat(moves, n) == IF n = 0 THEN << >> ELSE moves \o Repeat(moves, n - 1)

\* openings: the moves submitted in the first turns of a game, after which
\* any move may be submitted
\* both Attacker Viruses gone by self-destruction
VirusesGone ==
    << <<3,4,3,4>>, <<1,1,1,2>>, <<4,3,4,3>>, <<1,2,1,3>>, <<4,2,4,1>>,
       <<0,1,1,1>>, <<4,1,4,0>> >>

\* both AIs at health 2 and 1 on either side of an Attacker Firewall
BothAIsWeak ==
    << <<4,2,4,1>>, <<1,1,1,2>>, <<2,4,2,3>>, <<1,0,1,1>>, <<2,3,1,3>>,
       <<1,1,2,1>>, <<4,1,3,1>>, <<2,1,1,1>>, <<4,3,4,2>>, <<0,2,0,3>>,
       <<3,3,3,2>>, <<0,3,1,3>>, <<3,4,3,4>>, <<1,2,1,3>>, <<1,3,0,3>>,
       <<2,0,3,0>>, <<4,4,3,4>>, <<0,1,0,2>>, <<4,2,4,1>>, <<0,0,1,0>>,
       <<3,4,3,3>>, <<0,2,1,2>>, <<4,1,4,0>>, <<0,3,1,3>>, <<1,3,0,3>>,
       <<1,1,0,1>>, <<4,0,4,1>>, <<0,3,1,3>>, <<4,1,4,2>>, <<0,3,1,3>>,
       <<4,2,4,3>>, <<0,3,0,4>>, <<3,3,2,3>>, <<1,0,1,1>>, <<4,3,4,2>>,
       <<0,4,1,4>>, <<4,2,4,3>>, <<1,1,2,1>>, <<3,1,2,1>>, <<3,0,3,1>>,
       <<3,1,3,0>>, <<2,1,3,1>>, <<4,3,4,4>>, <<1,2,1,3>>, <<4,4,3,4>>,
       <<0,1,0,0>>, <<2,3,1,3>>, <<0,0,1,0>>, <<3,2,2,2>>, <<0,2,0,3>>,
       <<2,2,2,1>>, <<1,3,2,3>> >>

\* a Virus and a Tech going back and forth until the last turn but one
LastTurnButOne ==
    << <<2,4,2,3>>, <<1,1,1,2>> >>
       \o Repeat(<< <<3,4,2,4>>, <<1,0,1,1>>, <<2,4,3,4>>, <<1,1,1,0>> >>,
                 (max_turns - 4) \div 4)
       \o << <<3,4,2,4>> >>

Openings ==
    { << >>,
      \* both sides damaged by their own blasts, Techs next to damaged allies
      << <<2,4,1,4>>, <<1,1,1,1>>, <<3,3,3,3>> >>,
      \* two Programs at health 3 facing each other
      << <<2,4,2,3>>, <<1,1,1,2>>, <<2,3,2,2>>, <<1,2,2,2>>, <<2,2,1,2>> >>,
      \* a Program at health 3 attacked by Programs at health 6
      << <<2,4,2,3>>, <<1,1,1,2>>, <<4,2,3,2>>, <<1,2,2,2>>, <<3,2,2,2>>,
         <<1,0,1,1>>, <<2,3,2,2>> >>,
      << <<4,2,3,2>>, <<1,1,2,1>>, <<4,3,4,2>>, <<2,1,3,1>>, <<3,3,2,3>>,
         <<2,0,2,1>>, <<4,2,4,1>>, <<3,1,3,2>> >>,
      \* a Program at health 2 next to a Firewall and a Program
      << <<2,4,2,3>>, <<1,1,2,1>>, <<2,3,2,2>>, <<0,2,1,2>>, <<2,2,1,2>>,
         <<2,1,2,2>>, <<2,2,2,1>> >>,
      \* two Programs at health 1 side by side
      << <<2,4,2,3>>, <<1,1,1,2>>, <<2,3,1,3>>, <<1,2,1,3>>, <<4,2,4,1>>,
         <<1,2,1,3>>, <<4,1,3,1>>, <<0,2,0,2>> >>,
      \* an Attacker Virus next to the Defender's AI
      << <<3,3,2,3>>, <<1,1,1,2>>, <<3,4,3,3>>, <<1,2,1,3>>, <<3,3,3,2>>,
         <<0,1,1,1>>, <<3,2,2,2>>, <<2,0,2,1>>, <<4,4,3,4>>, <<1,0,2,0>>,
         <<3,4,3,3>>, <<1,1,1,0>>, <<2,2,1,2>>, <<0,0,0,1>>, <<3,3,3,2>>,
         <<2,1,2,2>>, <<2,3,1,3>>, <<0,1,1,1>> >>,
      \* the same, after the Virus and a Tech went back and forth until two
      \* turns before the limit
      << <<3,3,2,3>>, <<1,1,1,2>>, <<3,4,3,3>>, <<1,2,1,3>>, <<3,3,3,2>>,
         <<0,1,1,1>>, <<3,2,2,2>>, <<2,0,2,1>>, <<4,4,3,4>>, <<1,0,2,0>>,
         <<3,4,3,3>>, <<1,1,1,0>>, <<2,2,1,2>>, <<0,0,0,1>>, <<3,3,3,2>>,
         <<2,1,2,2>>, <<2,3,1,3>>, <<0,1,1,1>> >>
         \o Repeat(<< <<4,3,4,4>>, <<2,0,3,0>>, <<4,4,4,3>>, <<3,0,2,0>> >>,
                   (max_turns - 20) \div 4),
      \* the Attacker's AI at health 1 next to a Defender Program
      << <<2,4,1,4>>, <<2,0,3,0>>, <<4,2,4,1>>, <<3,0,4,0>>, <<4,3,4,3>>,
         <<1,1,2,1>>, <<3,3,3,2>>, <<0,2,0,3>>, <<1,4,0,4>>, <<4,0,4,1>>,
         <<4,4,4,3>>, <<0,1,1,1>>, <<4,3,3,3>>, <<2,1,2,2>>, <<4,1,4,0>>,
         <<1,0,2,0>>, <<3,3,2,3>>, <<2,2,2,3>>, <<3,4,2,4>>, <<4,0,4,1>>,
         <<2,3,2,2>>, <<1,1,0,1>> >>,
      BothAIsWeak,
      VirusesGone,
      LastTurnButOne }

\* the moves submitted to a turn: every cell and two coordinates off the
\* board as source, with the source itself, its four neighbours, two
\* diagonals and a cell two columns away as destination
MoveSources == Cells \cup { Coord(-1, 0), Coord(dim, dim - 1) }
MoveOffsets == { <<0,0>>, <<-1,0>>, <<0,-1>>, <<1,0>>, <<0,1>>, <<1,1>>, <<-1,-1>>, <<0,2>> }
MoveInputs ==
    { CoordPair(s, Coord(s[1] + o[1], s[2] + o[2])) : s \in MoveSources, o \in MoveOffsets }

\* the Game object
Self ==
    [board |-> board, next_player |-> next_player, turns_played |-> turns_played,
     attacker_has_ai |-> attacker_has_ai, defender_has_ai |-> defender_has_ai,
     removed |-> removed]

Becomes(g) ==
    /\ board' = g.board
    /\ next_player' = g.next_player
    /\ turns_played' = g.turns_played
    /\ attacker_has_ai' = g.attacker_has_ai
    /\ defender_has_ai' = g.defender_has_ai
    /\ removed' = g.removed

NoMove == CoordPair(Coord(0, 0), Coord(0, 0))

(* ---------------- game.py: candidates ---------------- *)

\* CoordPair.from_dim(dim).iter_rectangle(): the cells row by row
iter_rectangle == [i \in 1 .. dim * dim |-> Coord((i - 1) \div dim, (i - 1) % dim)]

\* Game.player_units: the (coord, unit) pairs of a team in scan order
player_units(g, player) ==
    LET mine(c) == get(g, c) # None /\ get(g, c).player = player
        coords == SelectSeq(iter_rectangle, mine)
    IN  [i \in 1 .. Len(coords) |-> <<coords[i], get(g, coords[i])>>]

\* the pairs Game.move_candidates classifies, in its order: for every unit
\* of the team its four neighbours, then the unit's own cell
probes(g, player) ==
    LET units == player_units(g, player)
    IN  [k \in 1 .. 5 * Len(units) |->
            LET src == units[((k - 1) \div 5) + 1][1]
                j == ((k - 1) % 5) + 1
            IN  CoordPair(src, IF j <= 4 THEN iter_adjacent(src)[j] ELSE src)]

\* the loop of Game.move_candidates from its k-th pair on: what the
\* generator yields, and whether it ends by raising AttributeError, either
\* out of determine_action or at the comparison with UnitAction.Invalid
RECURSIVE generate(_, _, _, _)
generate(g, moves, k, yielded) ==
    IF k > Len(moves) THEN [yielded |-> yielded, raised |-> FALSE]
    ELSE LET action == determine_action(g, moves[k])
         IN  IF action = AttributeError \/ Invalid = AttributeError
             THEN [yielded |-> yielded, raised |-> TRUE]
             ELSE generate(g, moves, k + 1,
                           IF action # Invalid
                           THEN Append(yielded, <<moves[k], action>>)
                           ELSE yielded)

\* Game.move_candidates
move_candidates(g, player) == generate(g, probes(g, player), 1, << >>)

\* Game.clone: a Game with a board of its own holding copies of the units
clone(g) ==
    [g EXCEPT !.board = [c \in Cells |->
        IF g.board[c] = None THEN None
        ELSE [player |-> g.board[c].player, type |-> g.board[c].type,
              health |-> g.board[c].health]]]

\* Game.next_state_candidates: a clone per candidate, with the other team
\* to move and the candidate's action performed; it raises when
\* move_candidates does
next_state_candidates(g) ==
    LET candidates == move_candidates(g, g.next_player)
        other_player == PlayerTeam_next(g.next_player)
        state(i) == perform_move([clone(g) EXCEPT !.next_player = other_player,
                                                 !.removed = << >>],
                                 candidates.yielded[i][1],
                                 candidates.yielded[i][2]).game
    IN  [yielded |-> [i \in 1 .. Len(candidates.yielded) |->
                         <<state(i), candidates.yielded[i][1]>>],
         raised |-> candidates.raised]

(* ---------------- game.py, ai_logic.py: move selection ---------------- *)

OutOfTimeException == "OutOfTimeException"
TypeError == "TypeError"
NoException == "None"

\* what a call returns or raises
returns(value, action) == [raised |-> NoException, value |-> value, action |-> action]
raises(exception) == [raised |-> exception, value |-> "None", action |-> NoMove]

\* the times on the clock at the first check of a search, in hundredths of
\* a second: at once, past the cutoff, past the time allowed
Clock == {0, 450, 500}

\* time_cutoff of Game.search_for_best_move, in hundredths of max_time
time_cutoff == IF heuristic_choice = 2 THEN 50 ELSE 85

\* Node.out_of_time_check: the elapsed time, or OutOfTimeException
out_of_time_check(elapsed_time) ==
    IF elapsed_time >= 100 * max_time THEN raises(OutOfTimeException)
    ELSE returns(elapsed_time, NoMove)

\* Game.random_next_state followed by the unpacking of its result in
\* search_for_best_move: list(move_candidates) may raise, an empty list
\* gives None, which does not unpack, else the pick-th candidate of the
\* shuffled list is returned, its node having no value
random_next_state(g, pick) ==
    LET candidates == move_candidates(g, g.next_player)
    IN  IF candidates.raised THEN raises(AttributeError)
        ELSE IF Len(candidates.yielded) = 0 THEN raises(TypeError)
        ELSE returns("None", candidates.yielded[((pick - 1) % Len(candidates.yielded)) + 1][1])

\* Node.generate_successors(node) as called by search_for_best_move: class
\* Node has no such attribute (its methods are is_root, is_leaf,
\* generate_node_tree, get_max_node, get_min_node, take_best_next_state,
\* out_of_time_check, run_minimax, minimax_propagate_values_up,
\* run_alphabeta and alphabeta_propagate_values_up), the lookup raises
Node_generate_successors(node) == raises(AttributeError)

\* Game.search_for_best_move with Options.alpha_beta and Options.max_depth:
\* the loop is entered while the elapsed time is under the cutoff, and its
\* first statement, the call of Node.generate_successors on the root,
\* raises before either option is read; when the loop is not entered, or
\* its condition raises OutOfTimeException, which is caught, best_move is
\* None and a random move is taken
search_for_best_move(g, with_alpha_beta, depth, elapsed_time, pick) ==
    LET root == clone(g)
        elapsed == out_of_time_check(elapsed_time)
    IN  IF elapsed.raised # OutOfTimeException
           /\ elapsed.value * 100 < (100 * max_time) * time_cutoff
        THEN Node_generate_successors(root)
        ELSE random_next_state(root, pick)

\* the levels Game.search_for_best_move has generated below the root when
\* it ends: none when the loop is not entered or its first expansion
\* raises, the first round's otherwise
levels_generated(g, depth, elapsed_time) ==
    LET root == clone(g)
        elapsed == out_of_time_check(elapsed_time)
    IN  IF /\ elapsed.raised # OutOfTimeException
           /\ elapsed.value * 100 < (100 * max_time) * time_cutoff
           /\ Node_generate_successors(root).raised = NoException
        THEN 1
        ELSE 0

\* Game.suggest_move: the move of the search
suggest_move(g, with_alpha_beta, depth, elapsed_time, pick) ==
    search_for_best_move(g, with_alpha_beta, depth, elapsed_time, pick)

(* ---------------- ai_logic.py: heuristics ---------------- *)

\* heuristic_e0_army_score: 9999 for an AI, 3 for every other unit
RECURSIVE army_score(_, _, _)
army_score(units, k, score) ==
    IF k > Len(units) THEN score
    ELSE army_score(units, k + 1,
                    score + (IF units[k][2].type = AI THEN 9999 ELSE 3))

heuristic_e0_army_score(state, player) == army_score(player_units(state, player), 1, 0)

\* heuristic_e0
heuristic_e0(state) ==
    heuristic_e0_army_score(state, Defender) - heuristic_e0_army_score(state, Attacker)

\* Coord.get_manhattan_distance as called by heuristic_e1: class Coord has
\* no such attribute, the lookup raises
Coord_get_manhattan_distance(coord1, coord2) == AttributeError

\* the first loop of heuristic_e1, over the Defender's units
RECURSIVE defender_loop(_, _, _)
defender_loop(units, k, total_hp) ==
    IF k > Len(units) THEN total_hp
    ELSE defender_loop(units, k + 1,
                       total_hp - (IF units[k][2].type = AI
                                   THEN units[k][2].health * 10
                                   ELSE units[k][2].health))

\* the second loop of heuristic_e1, over the Attacker's units: the total,
\* or the exception raised at the first Virus
RECURSIVE attacker_loop(_, _, _, _)
attacker_loop(units, k, my_ai_coord, total_hp) ==
    IF k > Len(units) THEN returns(total_hp, NoMove)
    ELSE LET coord == units[k][1]
             unit == units[k][2]
         IN  IF unit.type = Virus
             THEN IF Coord_get_manhattan_distance(coord, my_ai_coord) = AttributeError
                  THEN raises(AttributeError)
                  ELSE attacker_loop(units, k + 1, my_ai_coord,
                           total_hp + unit.health
                               * (10 - Coord_get_manhattan_distance(coord, my_ai_coord)))
             ELSE IF unit.type = AI
             THEN attacker_loop(units, k + 1, my_ai_coord, total_hp + unit.health * 5)
             ELSE attacker_loop(units, k + 1, my_ai_coord, total_hp + unit.health * 2)

\* heuristic_e1 taking the side of the team to move, as in the lines it
\* keeps commented out
heuristic_e1_of_mover(state) ==
    LET defenders == player_units(state, Defender)
        ais == { i \in 1 .. Len(defenders) : defenders[i][2].type = AI }
    IN  IF ais = {}
        THEN returns(IF state.next_player = Attacker THEN -9999 ELSE 9999, NoMove)
        ELSE attacker_loop(player_units(state, Attacker), 1,
                           defenders[CHOOSE i \in ais : \A j \in ais : j <= i][1],
                           defender_loop(defenders, 1, 0))

\* heuristic_e1 with a sentinel of its own for a dead Attacker AI
heuristic_e1_two_sentinels(state) ==
    LET defenders == player_units(state, Defender)
        attackers == player_units(state, Attacker)
        ais == { i \in 1 .. Len(defenders) : defenders[i][2].type = AI }
    IN  IF ais = {} THEN returns(9999, NoMove)
        ELSE IF \A i \in 1 .. Len(attackers) : attackers[i][2].type # AI
        THEN returns(-9999, NoMove)
        ELSE attacker_loop(attackers, 1,
                           defenders[CHOOSE i \in ais : \A j \in ais : j <= i][1],
                           defender_loop(defenders, 1, 0))

\* heuristic_e1: the value returned, or the exception raised
heuristic_e1(state) ==
    LET defenders == player_units(state, Defender)
        ais == { i \in 1 .. Len(defenders) : defenders[i][2].type = AI }
    IN  IF ais = {} THEN returns(9999, NoMove)
        ELSE attacker_loop(player_units(state, Attacker), 1,
                           defenders[CHOOSE i \in ais : \A j \in ais : j <= i][1],
                           defender_loop(defenders, 1, 0))

(* ---------------- game.py: the turns ---------------- *)

\* Game.attempt_move: the move is classified, then performed; the state
\* after it, the success flag, and the exception leaving the call, if any
attempt_move(g, coords) ==
    LET action == determine_action(g, coords)
    IN  IF action = AttributeError
        THEN [game |-> g, success |-> FALSE, raised |-> AttributeError]
        ELSE LET r == perform_move([g EXCEPT !.removed = << >>], coords, action)
             IN  [game |-> r.game, success |-> r.success, raised |-> NoException]

\* the move submitted at this turn: the opening's while it lasts, then any
Submitted ==
    IF turns_played < Len(script)
    THEN { CoordPair(Coord(script[turns_played + 1][1], script[turns_played + 1][2]),
                     Coord(script[turns_played + 1][3], script[turns_played + 1][4])) }
    ELSE { mv \in MoveInputs : turns_played < Len(script) + MaxSteps }

\* no call of suggest_move yet
NotSuggested ==
    [called |-> FALSE, root |-> NewGame, elapsed_time |-> 0,
     outcome |-> raises(NoException)]

\* main has not been entered
NotStarted == [pc |-> "None", game_type |-> "None", winner |-> "None"]

\* no propagation run yet
NotSearched ==
    [runs |-> 0, algorithm |-> "None", started |-> 0, tick |-> 0, entries |-> 0,
     visited |-> {}, cuts |-> {}, raised |-> NoException,
     outcome |-> raises(NoException)]

InitGame ==
    /\ script \in Openings
    /\ board = NewGame.board
    /\ next_player = NewGame.next_player
    /\ turns_played = NewGame.turns_played
    /\ attacker_has_ai = NewGame.attacker_has_ai
    /\ defender_has_ai = NewGame.defender_has_ai
    /\ removed = << >>
    /\ last = [mv |-> NoMove, action |-> "None", before |-> NewGame]
    /\ raised = FALSE
    /\ suggested = NotSuggested
    /\ node_objects = << >>
    /\ searched = NotSearched
    /\ main = NotStarted

\* the state after construction, no Game object being followed
Init ==
    /\ InitGame
    /\ unit_objects = << >>
    /\ board_objects = << >>
    /\ game_objects = << >>
    /\ acted = [on |-> 0, turns |-> 0]

\* Game.human_turn with an accepted move: the action is performed and the
\* turn passes
human_turn(mv) ==
    /\ ~ raised
    /\ determine_action(Self, mv) # AttributeError
    /\ Becomes(played(Self, mv))
    /\ last' = [mv |-> mv, action |-> determine_action(Self, mv),
                before |-> [Self EXCEPT !.removed = << >>]]
    /\ UNCHANGED <<raised, script, main, suggested, objects, trees>>

\* Game.human_turn with a move whose classification raises: the exception
\* leaves attempt_move, human_turn and the main loop
human_turn_raises(mv) ==
    /\ ~ raised
    /\ determine_action(Self, mv) = AttributeError
    /\ raised' = TRUE
    /\ UNCHANGED <<board, next_player, turns_played, attacker_has_ai,
                   defender_has_ai, removed, last, script, main, suggested, objects, trees>>

\* Game.computer_turn: the suggested move is attempted and the turn passes,
\* unless suggest_move raises, the exception then leaving computer_turn and
\* the main loop
computer_turn(elapsed_time, pick) ==
    /\ ~ raised
    /\ turns_played >= Len(script)
    /\ turns_played < Len(script) + MaxSteps
    /\ \E outcome \in {suggest_move(Self, alpha_beta, max_depth, elapsed_time, pick)} :
          /\ suggested' = [called |-> TRUE, root |-> [Self EXCEPT !.removed = << >>],
                           elapsed_time |-> elapsed_time, outcome |-> outcome]
          /\ IF outcome.raised # NoException
             THEN /\ raised' = TRUE
                  /\ UNCHANGED <<board, next_player, turns_played, attacker_has_ai,
                                 defender_has_ai, removed, last>>
             ELSE /\ Becomes(played(Self, outcome.action))
                  /\ last' = [mv |-> outcome.action,
                              action |-> determine_action(Self, outcome.action),
                              before |-> [Self EXCEPT !.removed = << >>]]
                  /\ UNCHANGED raised
    /\ UNCHANGED <<script, main, objects, trees>>

Next ==
    \/ \E mv \in Submitted : human_turn(mv)
    \/ \E mv \in Submitted : human_turn_raises(mv)
    \/ \E elapsed_time \in Clock, pick \in 1 .. MaxPick :
          computer_turn(elapsed_time, pick)

Spec == Init /\ [][Next]_vars

(* ---------------- game.py: Game objects and their clones ---------------- *)

\* number of clones made and of turns played on the Game objects once the
\* opening is over, and the longest opening played before cloning
MaxClones == 2
MaxApplied == 1
MaxOpening == 5

\* the occupied cells of a board of units, in scan order
occupied(units_at) ==
    LET holds(c) == units_at[c] # None
    IN  SelectSeq(iter_rectangle, holds)

\* new Unit objects for the units of a board and a new board list that
\* refers to them
allocate(unit_objs, board_objs, units_at) ==
    LET cells == occupied(units_at)
        index(c) == CHOOSE i \in 1 .. Len(cells) : cells[i] = c
    IN  [unit_objects |-> unit_objs \o [i \in 1 .. Len(cells) |-> units_at[cells[i]]],
         board_objects |->
             Append(board_objs,
                    [c \in Cells |-> IF units_at[c] = None THEN 0
                                     ELSE Len(unit_objs) + index(c)]),
         board |-> Len(board_objs) + 1]

\* the units a board list refers to
deref(unit_objs, board_objs, b) ==
    [c \in Cells |-> IF board_objs[b][c] = 0 THEN None
                     ELSE unit_objs[board_objs[b][c]]]

\* copy.deepcopy stopping at the list: the new list refers to the same Unit
\* objects
copy_deepcopy_shallow(unit_objs, board_objs, b) ==
    [unit_objects |-> unit_objs,
     board_objects |-> Append(board_objs, board_objs[b]),
     board |-> Len(board_objs) + 1]

\* no copy of the board at all: the clone keeps the list of its source
copy_deepcopy_same_list(unit_objs, board_objs, b) ==
    [unit_objects |-> unit_objs, board_objects |-> board_objs, board |-> b]

\* copy.deepcopy of a board: a new list that refers to copies of the units
copy_deepcopy(unit_objs, board_objs, b) ==
    allocate(unit_objs, board_objs, deref(unit_objs, board_objs, b))

\* the state a Game object is in
state_of(unit_objs, board_objs, game) ==
    [board |-> deref(unit_objs, board_objs, game.board),
     next_player |-> game.next_player,
     turns_played |-> game.turns_played,
     attacker_has_ai |-> game.attacker_has_ai,
     defender_has_ai |-> game.defender_has_ai,
     removed |-> << >>]

state(k) == state_of(unit_objects, board_objects, game_objects[k])

\* the openings played before cloning
CloneOpenings == { s \in Openings : Len(s) <= MaxOpening }

\* Game(): the first Game object, with its board and its units
InitObjects ==
    /\ InitGame
    /\ script \in CloneOpenings
    /\ LET made == allocate(<< >>, << >>, NewGame.board)
       IN  /\ unit_objects = made.unit_objects
           /\ board_objects = made.board_objects
           /\ game_objects = << [board |-> made.board,
                                 next_player |-> NewGame.next_player,
                                 turns_played |-> NewGame.turns_played,
                                 attacker_has_ai |-> NewGame.attacker_has_ai,
                                 defender_has_ai |-> NewGame.defender_has_ai] >>
    /\ acted = [on |-> 0, turns |-> 0]

\* the opening has been played on the first Game object
opening_over == game_objects[1].turns_played >= Len(script)

\* Game.clone on the k-th Game object: copy.copy of the object, then a
\* deep copy of its board
Game_clone(k) ==
    /\ opening_over
    /\ Len(game_objects) < 1 + MaxClones
    /\ LET new == copy_deepcopy(unit_objects, board_objects, game_objects[k].board)
       IN  /\ unit_objects' = new.unit_objects
           /\ board_objects' = new.board_objects
           /\ game_objects' = Append(game_objects,
                                     [game_objects[k] EXCEPT !.board = new.board])
    /\ acted' = [acted EXCEPT !.on = 0]
    /\ UNCHANGED <<board, next_player, turns_played, attacker_has_ai,
                   defender_has_ai, removed, raised, last, script, main, suggested, trees>>

\* the moves submitted to the k-th Game object: the opening's to the first
\* while it lasts, then any
SubmittedTo(k) ==
    IF ~ opening_over
    THEN { mv \in MoveInputs :
              /\ k = 1
              /\ mv = LET m == script[game_objects[1].turns_played + 1]
                      IN  CoordPair(Coord(m[1], m[2]), Coord(m[3], m[4])) }
    ELSE { mv \in MoveInputs : acted.turns < MaxApplied }

\* Game.attempt_move and Game.next_turn on the k-th Game object: set
\* assigns to the cells of the object's board list, mod_health and destroy
\* assign to the health of the Unit objects the list refers to
Game_turn(k, mv) ==
    \E before \in {state(k)} :
    \E action \in {determine_action(before, mv)} :
    \E after \in {played(before, mv)} :
    LET b == game_objects[k].board
        refs == board_objects[b]
    IN  /\ action # AttributeError
        /\ board_objects' =
              [board_objects EXCEPT ![b] =
                  IF action = Move
                  THEN [refs EXCEPT ![mv.dst] = refs[mv.src], ![mv.src] = 0]
                  ELSE [c \in Cells |-> IF after.board[c] = None THEN 0 ELSE refs[c]]]
        /\ unit_objects' =
              IF action = Move THEN unit_objects
              ELSE [u \in 1 .. Len(unit_objects) |->
                      IF \E c \in Cells : refs[c] = u
                      THEN LET c == CHOOSE c \in Cells : refs[c] = u
                           IN  IF after.board[c] # None THEN after.board[c]
                               ELSE [unit_objects[u] EXCEPT !.health =
                                        IF action = Kaboom /\ c = mv.dst THEN -1 ELSE 0]
                      ELSE unit_objects[u]]
        /\ game_objects' =
              [game_objects EXCEPT ![k] =
                  [board |-> b,
                   next_player |-> after.next_player,
                   turns_played |-> after.turns_played,
                   attacker_has_ai |-> after.attacker_has_ai,
                   defender_has_ai |-> after.defender_has_ai]]
        /\ acted' = [on |-> k, turns |-> IF opening_over THEN acted.turns + 1 ELSE 0]
        /\ UNCHANGED <<board, next_player, turns_played, attacker_has_ai,
                       defender_has_ai, removed, raised, last, script, main, suggested, trees>>

NextObjects ==
    \/ \E k \in 1 .. Len(game_objects) : Game_clone(k)
    \/ \E k \in 1 .. Len(game_objects) : \E mv \in SubmittedTo(k) : Game_turn(k, mv)

SpecObjects == InitObjects /\ [][NextObjects]_vars

(* ---------------- ai_logic.py: Node trees ---------------- *)

\* number of Node objects of a tree and of propagation runs over it
MaxNodes == 5
MaxRuns == 1

\* math.inf, beyond every value of the heuristics
inf == 1000000

\* Node(state, from_parent, parent), state being a Game: no children, no
\* value; children and value are << >> for None, the value v is <<v>>
Node(game, from_parent, parent) ==
    [state |-> game, parent |-> parent, action |-> from_parent,
     children |-> << >>, value |-> << >>]

\* Node.is_leaf
is_leaf(node) == Len(node.children) = 0

\* max and min of Python on a list of numbers
max(values) ==
    CHOOSE v \in { values[i] : i \in 1 .. Len(values) } :
        \A i \in 1 .. Len(values) : values[i] <= v
min(values) ==
    CHOOSE v \in { values[i] : i \in 1 .. Len(values) } :
        \A i \in 1 .. Len(values) : values[i] >= v

\* the loop of Node.get_max_node from the k-th node of the list on; 0 is None
RECURSIVE get_max_scan(_, _, _, _, _)
get_max_scan(nodes, list, k, max_value, max_node) ==
    IF k > Len(list) THEN max_node
    ELSE IF nodes[list[k]].value = << >>
    THEN get_max_scan(nodes, list, k + 1, max_value, max_node)
    ELSE IF nodes[list[k]].value[1] > max_value
    THEN get_max_scan(nodes, list, k + 1, nodes[list[k]].value[1], list[k])
    ELSE get_max_scan(nodes, list, k + 1, max_value, max_node)

\* Node.get_max_node
get_max_node(nodes, list) == get_max_scan(nodes, list, 1, - inf, 0)

\* the loop of Node.get_min_node from the k-th node of the list on
RECURSIVE get_min_scan(_, _, _, _, _)
get_min_scan(nodes, list, k, min_value, min_node) ==
    IF k > Len(list) THEN min_node
    ELSE IF nodes[list[k]].value = << >>
    THEN get_min_scan(nodes, list, k + 1, min_value, min_node)
    ELSE IF nodes[list[k]].value[1] < min_value
    THEN get_min_scan(nodes, list, k + 1, nodes[list[k]].value[1], list[k])
    ELSE get_min_scan(nodes, list, k + 1, min_value, min_node)

\* Node.get_min_node
get_min_node(nodes, list) == get_min_scan(nodes, list, 1, inf, 0)

\* Node.take_best_next_state: the value and the action of the best child
\* of the root, or of a random successor when no child has a value; the
\* loop over the children raises TypeError when the root has none, its
\* children being None
take_best_next_state(nodes, root, is_maximizing, pick) ==
    LET best_next_state == IF is_maximizing
                           THEN get_max_node(nodes, nodes[root].children)
                           ELSE get_min_node(nodes, nodes[root].children)
    IN  IF nodes[root].children = << >> THEN raises(TypeError)
        ELSE IF best_next_state = 0 THEN random_next_state(nodes[root].state, pick)
        ELSE returns(nodes[best_next_state].value[1], nodes[best_next_state].action)

\* a propagation about to start on the nodes: no entry made, nothing
\* visited, nothing cut, nothing raised
NewRun(nodes) ==
    [nodes |-> nodes, entries |-> 0, visited |-> {}, cuts |-> {},
     raised |-> NoException]

\* the values of the children of a node, in their order
children_values(nodes, root) ==
    [i \in 1 .. Len(nodes[root].children) |-> nodes[nodes[root].children[i]].value[1]]

\* the value of every level taken as a MAX level
level_value_max(values, is_maximizing) == max(values)

\* the value of a node from its children's, at a MAX or a MIN level
level_value(values, is_maximizing) ==
    IF is_maximizing THEN max(values) ELSE min(values)

\* Node.minimax_propagate_values_up, every entry taking tick hundredths of
\* a second of the clock: the run after the call on the node
RECURSIVE minimax_propagate_values_up(_, _, _, _)
RECURSIVE minimax_children(_, _, _, _, _)
minimax_propagate_values_up(run, root, is_maximizing, tick) ==
    LET entered == [run EXCEPT !.entries = @ + 1, !.visited = @ \cup {root}]
        node == run.nodes[root]
    IN  IF out_of_time_check(run.entries * tick).raised = OutOfTimeException
        THEN [entered EXCEPT !.raised = OutOfTimeException]
        ELSE IF is_leaf(node)
        THEN IF node.value = << >>
             THEN LET e == heuristic_e1(node.state)
                  IN  IF e.raised # NoException
                      THEN [entered EXCEPT !.raised = e.raised]
                      ELSE [entered EXCEPT !.nodes[root].value = <<e.value>>]
             ELSE entered
        ELSE LET done == minimax_children(entered, root, 1, ~ is_maximizing, tick)
             IN  IF done.raised # NoException THEN done
                 ELSE [done EXCEPT !.nodes[root].value =
                          << level_value(children_values(done.nodes, root),
                                         is_maximizing) >>]

\* the list of the children's values built by minimax_propagate_values_up,
\* from the k-th child on
minimax_children(run, root, k, is_maximizing, tick) ==
    IF k > Len(run.nodes[root].children) \/ run.raised # NoException THEN run
    ELSE minimax_children(
             minimax_propagate_values_up(run, run.nodes[root].children[k],
                                         is_maximizing, tick),
             root, k + 1, is_maximizing, tick)

\* the loop over the children left as soon as one has been searched
pruned_always(alpha, beta) == TRUE

\* the test that ends the loop over the children
pruned(alpha, beta) == beta <= alpha

\* Node.alphabeta_propagate_values_up
RECURSIVE alphabeta_propagate_values_up(_, _, _, _, _, _)
RECURSIVE alphabeta_children(_, _, _, _, _, _, _, _)
alphabeta_propagate_values_up(run, root, alpha, beta, is_maximizing, tick) ==
    LET entered == [run EXCEPT !.entries = @ + 1, !.visited = @ \cup {root}]
        node == run.nodes[root]
    IN  IF out_of_time_check(run.entries * tick).raised = OutOfTimeException
        THEN [entered EXCEPT !.raised = OutOfTimeException]
        ELSE IF is_leaf(node)
        THEN IF node.value = << >>
             THEN LET e == heuristic_e1(node.state)
                  IN  IF e.raised # NoException
                      THEN [entered EXCEPT !.raised = e.raised]
                      ELSE [entered EXCEPT !.nodes[root].value = <<e.value>>]
             ELSE entered
        ELSE alphabeta_children(entered, root, 1, alpha, beta,
                                IF is_maximizing THEN - inf ELSE inf,
                                is_maximizing, tick)

\* the loop of alphabeta_propagate_values_up over the children of the node,
\* from the k-th on; a cut records the node, the child after which the loop
\* is left, and the bounds at that point
alphabeta_children(run, root, k, alpha, beta, best, is_maximizing, tick) ==
    IF k > Len(run.nodes[root].children)
    THEN [run EXCEPT !.nodes[root].value = <<best>>]
    ELSE LET child == run.nodes[root].children[k]
             done == alphabeta_propagate_values_up(run, child, alpha, beta,
                                                   ~ is_maximizing, tick)
         IN  IF done.raised # NoException THEN done
             ELSE LET score == done.nodes[child].value[1]
                      new_best == IF is_maximizing THEN max(<<best, score>>)
                                  ELSE min(<<best, score>>)
                      new_alpha == IF is_maximizing THEN max(<<alpha, new_best>>)
                                   ELSE alpha
                      new_beta == IF is_maximizing THEN beta
                                  ELSE min(<<beta, new_best>>)
                  IN  IF pruned(new_alpha, new_beta)
                      THEN [done EXCEPT
                               !.nodes[root].value = <<new_best>>,
                               !.cuts = @ \cup {[node |-> root, child |-> k,
                                                 alpha |-> new_alpha,
                                                 beta |-> new_beta]}]
                      ELSE alphabeta_children(done, root, k + 1, new_alpha, new_beta,
                                              new_best, is_maximizing, tick)

\* Node.run_minimax: the run, and what the call returns or raises; an
\* exception of the heuristic is not caught
run_minimax(nodes, root, is_maximizing, tick, pick) ==
    LET run == minimax_propagate_values_up(NewRun(nodes), root, is_maximizing, tick)
    IN  [run |-> run,
         outcome |-> IF run.raised \in {NoException, OutOfTimeException}
                     THEN take_best_next_state(run.nodes, root, is_maximizing, pick)
                     ELSE raises(run.raised)]

\* Node.run_alphabeta
run_alphabeta(nodes, root, is_maximizing, tick, pick) ==
    LET run == alphabeta_propagate_values_up(NewRun(nodes), root, - inf, inf,
                                             is_maximizing, tick)
    IN  [run |-> run,
         outcome |-> IF run.raised \in {NoException, OutOfTimeException}
                     THEN take_best_next_state(run.nodes, root, is_maximizing, pick)
                     ELSE raises(run.raised)]

\* the games whose state a tree is rooted at: a new game, and the game
\* after the opening that removes the Viruses
TreeOpenings == { << >>, VirusesGone }

\* the moves the children of a node are made with, where they apply
TreeMoves ==
    { CoordPair(Coord(0, 0), Coord(0, 0)), CoordPair(Coord(1, 1), Coord(1, 1)),
      CoordPair(Coord(0, 0), Coord(0, 1)), CoordPair(Coord(4, 4), Coord(4, 4)),
      CoordPair(Coord(2, 4), Coord(2, 3)) }

\* the time on the clock of the search when a propagation run starts, and
\* the time every entry of the propagation then takes, in hundredths of a
\* second
Clocks ==
    { [started |-> 0, tick |-> 0], [started |-> 400, tick |-> 100],
      [started |-> 0, tick |-> 300] }

InitTree ==
    /\ InitGame
    /\ script \in TreeOpenings
    /\ unit_objects = << >>
    /\ board_objects = << >>
    /\ game_objects = << >>
    /\ acted = [on |-> 0, turns |-> 0]

\* a turn of the opening
opening_turn(mv) ==
    /\ turns_played < Len(script)
    /\ human_turn(mv)

\* root = Node(self.clone()) of search_for_best_move
Node_root ==
    /\ ~ raised
    /\ turns_played = Len(script)
    /\ node_objects = << >>
    /\ node_objects' = << Node(clone(Self), NoMove, 0) >>
    /\ UNCHANGED <<board, next_player, turns_played, attacker_has_ai,
                   defender_has_ai, removed, raised, last, script, main, suggested,
                   objects, searched>>

\* the successor made without handing the turn to the other team
next_state_keeps_mover(g, move) ==
    perform_move([clone(g) EXCEPT !.removed = << >>],
                 move, determine_action(g, move)).game

\* a successor of the state of a node by a move of its team to move, as
\* Game.next_state_candidates makes it for a candidate: a clone with the
\* other team to move on which the move is performed
next_state(g, move) ==
    perform_move([clone(g) EXCEPT !.next_player = PlayerTeam_next(g.next_player),
                                  !.removed = << >>],
                 move, determine_action(g, move)).game

\* child_node = Node(next_state, move, parent) appended to the children of
\* the parent, level by level, before a round's run
Node_append(parent, move) ==
    /\ node_objects # << >>
    /\ Len(node_objects) < MaxNodes
    /\ searched.runs < MaxRuns
    /\ parent >= node_objects[Len(node_objects)].parent
    /\ \A i \in 1 .. Len(node_objects[parent].children) :
          node_objects[node_objects[parent].children[i]].action # move
    /\ determine_action(node_objects[parent].state, move) \in {Move, Attack, Repair, Kaboom}
    /\ node_objects' =
          Append([node_objects EXCEPT ![parent].children =
                      Append(@, Len(node_objects) + 1)],
                 Node(next_state(node_objects[parent].state, move), move, parent))
    /\ searched' = [searched EXCEPT !.algorithm = "None"]
    /\ UNCHANGED <<board, next_player, turns_played, attacker_has_ai,
                   defender_has_ai, removed, raised, last, script, main, suggested,
                   objects>>

\* what a run leaves: the values on the nodes and the record of the run
Searched(algorithm, result, started, tick) ==
    /\ node_objects' = result.run.nodes
    /\ searched' = [runs |-> searched.runs + 1, algorithm |-> algorithm,
                    started |-> started, tick |-> tick,
                    entries |-> result.run.entries, visited |-> result.run.visited,
                    cuts |-> result.run.cuts, raised |-> result.run.raised,
                    outcome |-> result.outcome]
    /\ UNCHANGED <<board, next_player, turns_played, attacker_has_ai,
                   defender_has_ai, removed, raised, last, script, main, suggested,
                   objects>>

\* Node.run_minimax(root, is_maximizing) of a round of the search; the
\* random move taken when no child has a value is the first of the shuffle
Node_run_minimax(started, tick) ==
    /\ node_objects # << >>
    /\ searched.runs < MaxRuns
    /\ \E result \in {run_minimax(node_objects, 1,
                                  node_objects[1].state.next_player = Defender,
                                  tick, 1)} :
          Searched("minimax", result, started, tick)

\* Node.run_alphabeta(root, is_maximizing) of a round of the search
Node_run_alphabeta(started, tick) ==
    /\ node_objects # << >>
    /\ searched.runs < MaxRuns
    /\ \E result \in {run_alphabeta(node_objects, 1,
                                    node_objects[1].state.next_player = Defender,
                                    tick, 1)} :
          Searched("alphabeta", result, started, tick)

NextTree ==
    \/ \E mv \in Submitted : opening_turn(mv)
    \/ Node_root
    \/ \E parent \in 1 .. Len(node_objects), move \in TreeMoves : Node_append(parent, move)
    \/ \E clock \in Clocks : Node_run_minimax(clock.started, clock.tick)
    \/ \E clock \in Clocks : Node_run_alphabeta(clock.started, clock.tick)

SpecTree == InitTree /\ [][NextTree]_vars

(* ---------------- __main__.py: the main loop ---------------- *)

\* GameType members
AttackerVsDefender == "AttackerVsDefender"
AttackerVsComp == "AttackerVsComp"
CompVsDefender == "CompVsDefender"
CompVsComp == "CompVsComp"
GameType == {AttackerVsDefender, AttackerVsComp, CompVsDefender, CompVsComp}

\* the test of the main loop for a human turn
human_to_move(g, game_type) ==
    \/ game_type = AttackerVsDefender
    \/ game_type = AttackerVsComp /\ g.next_player = Attacker
    \/ game_type = CompVsDefender /\ g.next_player = Defender

\* the games played through main: a new game, a game opened up to the state
\* where one blast can kill both AIs, an opening without Viruses, and a
\* game opened up to the last turn but one
MainOpenings == { << >>, BothAIsWeak, VirusesGone, LastTurnButOne }

\* the moves entered after the opening, until the game ends: the
\* self-destruction at either AI's corner and at the centre, the first move
\* of a Program of each team, a Virus and a Tech going back and forth, a
\* diagonal pair and a pair off the board
LateInputs ==
    { CoordPair(Coord(0, 0), Coord(0, 0)), CoordPair(Coord(4, 4), Coord(4, 4)),
      CoordPair(Coord(2, 2), Coord(2, 2)),
      CoordPair(Coord(2, 4), Coord(2, 3)), CoordPair(Coord(1, 1), Coord(1, 2)),
      CoordPair(Coord(3, 4), Coord(2, 4)), CoordPair(Coord(2, 4), Coord(3, 4)),
      CoordPair(Coord(1, 0), Coord(1, 1)), CoordPair(Coord(1, 1), Coord(1, 0)),
      CoordPair(Coord(0, 0), Coord(1, 1)), CoordPair(Coord(-1, 0), Coord(0, 0)) }

\* the move entered at this turn
Entered ==
    IF turns_played < Len(script)
    THEN { CoordPair(Coord(script[turns_played + 1][1], script[turns_played + 1][2]),
                     Coord(script[turns_played + 1][3], script[turns_played + 1][4])) }
    ELSE LateInputs

InitMain ==
    /\ InitGame
    /\ script \in MainOpenings
    /\ unit_objects = << >>
    /\ board_objects = << >>
    /\ game_objects = << >>
    /\ acted = [on |-> 0, turns |-> 0]

Game == <<board, next_player, turns_played, attacker_has_ai, defender_has_ai, removed>>

\* main up to the loop: the game type of the command line goes into the
\* options of the new game
main_options(game_type) ==
    /\ main.pc = "None"
    /\ main' = [pc |-> "loop", game_type |-> game_type, winner |-> "None"]
    /\ UNCHANGED <<Game, raised, last, script, suggested, objects, trees>>

\* the top of the loop: winner = game.has_winner(), and the break out of
\* the loop when there is one
main_has_winner ==
    /\ main.pc = "loop"
    /\ main' = [main EXCEPT !.winner = has_winner(Self),
                            !.pc = IF has_winner(Self) # NoWinner THEN "exit" ELSE "turn"]
    /\ UNCHANGED <<Game, raised, last, script, suggested, objects, trees>>

\* game.human_turn() of the loop with a move that is accepted: the action
\* is performed, the turn passes and the loop goes round
main_human_turn(mv) ==
    /\ main.pc = "turn"
    /\ human_to_move(Self, main.game_type)
    /\ determine_action(Self, mv) # AttributeError
    /\ Becomes(played(Self, mv))
    /\ last' = [mv |-> mv, action |-> determine_action(Self, mv),
                before |-> [Self EXCEPT !.removed = << >>]]
    /\ main' = [main EXCEPT !.pc = "loop"]
    /\ UNCHANGED <<raised, script, suggested, objects, trees>>

\* game.human_turn() of the loop with a move whose classification raises:
\* the exception leaves the loop and main
main_human_turn_raises(mv) ==
    /\ main.pc = "turn"
    /\ human_to_move(Self, main.game_type)
    /\ determine_action(Self, mv) = AttributeError
    /\ raised' = TRUE
    /\ main' = [main EXCEPT !.pc = "raised"]
    /\ UNCHANGED <<Game, last, script, suggested, objects, trees>>

\* game.computer_turn() of the loop: the suggested move is attempted, the
\* turn passes and the loop goes round, unless suggest_move raises, the
\* exception then leaving the loop and main
main_computer_turn(elapsed_time, pick) ==
    /\ main.pc = "turn"
    /\ ~ human_to_move(Self, main.game_type)
    /\ \E outcome \in {suggest_move(Self, alpha_beta, max_depth, elapsed_time, pick)} :
          /\ suggested' = [called |-> TRUE, root |-> [Self EXCEPT !.removed = << >>],
                           elapsed_time |-> elapsed_time, outcome |-> outcome]
          /\ IF outcome.raised # NoException
             THEN /\ raised' = TRUE
                  /\ main' = [main EXCEPT !.pc = "raised"]
                  /\ UNCHANGED <<Game, last>>
             ELSE /\ Becomes(played(Self, outcome.action))
                  /\ last' = [mv |-> outcome.action,
                              action |-> determine_action(Self, outcome.action),
                              before |-> [Self EXCEPT !.removed = << >>]]
                  /\ main' = [main EXCEPT !.pc = "loop"]
                  /\ UNCHANGED raised
    /\ UNCHANGED <<script, objects, trees>>

NextMain ==
    \/ \E game_type \in GameType : main_options(game_type)
    \/ main_has_winner
    \/ \E mv \in Entered : main_human_turn(mv)
    \/ \E mv \in Entered : main_human_turn_raises(mv)
    \/ \E elapsed_time \in Clock, pick \in 1 .. MaxPick :
          main_computer_turn(elapsed_time, pick)

SpecMain == InitMain /\ [][NextMain]_vars

\* the program runs: main reaches its loop, and the loop its test
SpecMainFair ==
    /\ SpecMain
    /\ WF_vars(\E game_type \in GameType : main_options(game_type))
    /\ WF_vars(main_has_winner)

(* ---------------- helpers of the properties ---------------- *)

Max(a, b) == IF a > b THEN a ELSE b

\* the units of a team on a board
UnitCells(b, team) == { c \in Cells : b[c] # None /\ b[c].player = team }
AICells(b, team) == { c \in UnitCells(b, team) : b[c].type = AI }

has_ai(team) == IF team = Attacker THEN attacker_has_ai ELSE defender_has_ai

\* an action was performed by the last turn
Performed(kind) == last.action = kind

\* cells within Chebyshev distance 1 of c, c included
Blast(c) == { d \in Cells : Abs(d[1] - c[1]) <= 1 /\ Abs(d[2] - c[2]) <= 1 }

\* the cell holds the unit u with health h, or nothing when h is not positive
HoldsAt(c, u, h) ==
    IF h > 0 THEN board[c] = [u EXCEPT !.health = h] ELSE board[c] = None

(* ---------------- C1 ---------------- *)

\* the classification by the first matching rule, Invalid being a kind that
\* is returned
FirstMatch(g, coords) ==
    IF ~ is_coord_valid(coords.src) \/ ~ is_coord_valid(coords.dst) THEN "Invalid"
    ELSE IF g.board[coords.src] = None THEN "Invalid"
    ELSE IF g.board[coords.src].player # g.next_player THEN "Invalid"
    ELSE IF coords.src = coords.dst THEN Kaboom
    ELSE IF Abs(coords.src[1] - coords.dst[1]) + Abs(coords.src[2] - coords.dst[2]) # 1
    THEN "Invalid"
    ELSE IF g.board[coords.dst] = None
    THEN LET u == g.board[coords.src]
             towardsHome ==
                 \/ u.player = Defender
                    /\ (coords.dst[1] < coords.src[1] \/ coords.dst[2] < coords.src[2])
                 \/ u.player = Attacker
                    /\ (coords.dst[1] > coords.src[1] \/ coords.dst[2] > coords.src[2])
             engaged ==
                 \E c \in Cells :
                     /\ Abs(c[1] - coords.src[1]) + Abs(c[2] - coords.src[2]) = 1
                     /\ g.board[c] # None
                     /\ g.board[c].player # u.player
         IN  IF u.type \in {AI, Program, Firewall} /\ (towardsHome \/ engaged)
             THEN "Invalid" ELSE Move
    ELSE IF g.board[coords.dst].player # g.next_player THEN Attack
    ELSE IF repair_amount(g.board[coords.src], g.board[coords.dst]) > 0 THEN Repair
    ELSE "Invalid"

\* C1: determine_action classifies every coordinate pair by the first
\* matching rule of the ordered list (out of bounds, empty source, foreign
\* source, self-destruct, non-adjacent, move, attack, repair, otherwise
\* Invalid), the Invalid kind being returned like the others
C1_FirstMatchingRule ==
    \A mv \in MoveInputs : determine_action(Self, mv) = FirstMatch(Self, mv)

(* ---------------- C2 ---------------- *)

\* C2: in every reachable state each team has at most one AI unit on the
\* board, and its has-AI flag is true exactly when that unit is on the board
C2_OneAIPerTeamAndFlag ==
    \A team \in PlayerTeam :
        /\ Cardinality(AICells(board, team)) <= 1
        /\ has_ai(team) <=> (AICells(board, team) # {})

\* an attack has just killed the Defender's AI
C2_Witness ==
    /\ Performed(Attack)
    /\ AICells(last.before.board, Defender) # {}
    /\ AICells(board, Defender) = {}
    /\ ~ defender_has_ai
    /\ attacker_has_ai

(* ---------------- C3 ---------------- *)

\* C3: each team's has-AI flag is monotonic: once false, no action or turn
\* advance makes it true again
C3_FlagMonotonic ==
    [][ /\ (~ attacker_has_ai => ~ attacker_has_ai')
        /\ (~ defender_has_ai => ~ defender_has_ai') ]_vars

\* a self-destruct was performed, and killed units, in a state whose
\* Defender flag was already false
C3_Witness ==
    /\ ~ last.before.defender_has_ai
    /\ ~ defender_has_ai
    /\ Performed(Kaboom)
    /\ last.before.next_player = Defender
    /\ Len(removed) > 0

(* ---------------- C4 ---------------- *)

\* C4: has_winner returns Defender whenever turns_played has reached
\* max_turns, whatever the flags; below the limit it returns Defender when
\* only the Attacker's flag is false, Attacker when only the Defender's flag
\* is false, and no winner when both flags are true
C4_HasWinner ==
    LET w == has_winner(Self)
    IN  /\ turns_played >= max_turns => w = Defender
        /\ turns_played < max_turns =>
             /\ (~ attacker_has_ai /\ defender_has_ai) => w = Defender
             /\ (attacker_has_ai /\ ~ defender_has_ai) => w = Attacker
             /\ (attacker_has_ai /\ defender_has_ai) => w = NoWinner

\* the turn limit is reached exactly, in a state where only the Defender has
\* lost its AI
C4_Witness ==
    /\ turns_played = max_turns
    /\ attacker_has_ai
    /\ ~ defender_has_ai
    /\ has_winner(Self) = Defender

(* ---------------- C5 ---------------- *)

\* the units an operation touched: those on the board and those it removed
HealthsInRange(lo, hi) ==
    /\ \A c \in Cells : board[c] # None => board[c].health \in lo .. hi
    /\ \A i \in 1 .. Len(removed) : removed[i].health \in lo .. hi

\* C5 as stated: the health of every unit an operation touches stays within
\* [0, 9], the unit that self-destructs included
C5_HealthAlwaysInRange == HealthsInRange(0, 9)

\* C5: the health of every unit stays within [0, 9] through every operation,
\* except that of the unit that self-destructs, which is set to -1 when the
\* unit is removed
C5_HealthInRangeButExploder ==
    /\ \A c \in Cells : board[c] # None => board[c].health \in 0 .. 9
    /\ \A i \in 1 .. Len(removed) :
          \/ removed[i].health \in 0 .. 9
          \/ /\ Performed(Kaboom)
             /\ i = 1
             /\ removed[i] = [last.before.board[last.mv.dst] EXCEPT !.health = -1]

\* a self-destruct removed its unit and a neighbour that had health 1
C5_Witness ==
    /\ Performed(Kaboom)
    /\ Len(removed) >= 2
    /\ removed[1].health = -1
    /\ \E c \in Blast(last.mv.dst) \ {last.mv.dst} :
          /\ last.before.board[c] # None
          /\ last.before.board[c].health = 1
          /\ board[c] = None

(* ---------------- C6 ---------------- *)

\* C6: after any performed action no cell holds a unit with health <= 0, and
\* an AI removed by the action has its team's flag false
C6_NoDeadUnitOnBoard ==
    (last.action \in {Move, Attack, Repair, Kaboom}) =>
        /\ \A c \in Cells : board[c] # None => board[c].health > 0
        /\ \A i \in 1 .. Len(removed) :
              removed[i].type = AI => ~ has_ai(removed[i].player)

\* an attack brought an AI to health 0: it is off the board and the flag fell
C6_Witness ==
    /\ Performed(Attack)
    /\ \E i \in 1 .. Len(removed) : removed[i].type = AI /\ removed[i].health = 0
    /\ \E c \in {last.mv.src, last.mv.dst} :
          /\ last.before.board[c].type = AI
          /\ board[c] = None

(* ---------------- C7 ---------------- *)

\* C7: after a Move the acting unit, unchanged, is at the destination, the
\* source is empty, every other cell is unchanged and the number of units is
\* the same
C7_MoveRelocates ==
    Performed(Move) =>
        /\ board[last.mv.dst] = last.before.board[last.mv.src]
        /\ board[last.mv.src] = None
        /\ \A c \in Cells \ {last.mv.src, last.mv.dst} : board[c] = last.before.board[c]
        /\ Cardinality({ c \in Cells : board[c] # None })
             = Cardinality({ c \in Cells : last.before.board[c] # None })

\* a unit has moved to a cell that was empty
C7_Witness ==
    /\ Performed(Move)
    /\ last.before.board[last.mv.src] # None
    /\ last.before.board[last.mv.dst] = None
    /\ removed = << >>

(* ---------------- C8 ---------------- *)

\* C8: an Attack of A at the source on B at the destination leaves B with
\* its health less damage_table[A][B] and A with its health less
\* damage_table[B][A], both floored at 0 (a unit at 0 is off the board),
\* also when B dies; the other cells are unchanged
C8_AttackBothWays ==
    Performed(Attack) =>
        LET A == last.before.board[last.mv.src]
            B == last.before.board[last.mv.dst]
        IN  /\ HoldsAt(last.mv.dst, B,
                       Max(0, B.health - damage_table[A.type + 1][B.type + 1]))
            /\ HoldsAt(last.mv.src, A,
                       Max(0, A.health - damage_table[B.type + 1][A.type + 1]))
            /\ \A c \in Cells \ {last.mv.src, last.mv.dst} :
                  board[c] = last.before.board[c]

\* the attacked unit died and the attacker, still on the board, lost health
C8_Witness ==
    /\ Performed(Attack)
    /\ board[last.mv.dst] = None
    /\ board[last.mv.src] # None
    /\ board[last.mv.src].health < last.before.board[last.mv.src].health

(* ---------------- C9 ---------------- *)

\* C9: a Repair never raises health above 9, and a pair of friendly units
\* whose computed repair amount is 0 is classified Invalid, not Repair
C9_RepairCappedAndZeroInvalid ==
    /\ Performed(Repair) => board[last.mv.dst].health <= 9
    /\ \A mv \in MoveInputs :
          ( /\ is_coord_valid(mv.src) /\ is_coord_valid(mv.dst)
            /\ are_adjacent_cross(mv.src, mv.dst)
            /\ board[mv.src] # None /\ board[mv.dst] # None
            /\ board[mv.src].player = next_player
            /\ board[mv.dst].player = next_player
            /\ repair_amount(board[mv.src], board[mv.dst]) = 0 )
          => determine_action(Self, mv) = "Invalid"

(* ---------------- C10 ---------------- *)

\* the state after a self-destruct at C where every unit around C lost
\* Loss(health) health
SelfDestructed(Loss(_)) ==
    LET C == last.mv.dst
    IN  /\ board[C] = None
        /\ \A c \in Blast(C) \ {C} :
              LET u == last.before.board[c]
              IN  IF u = None THEN board[c] = None
                  ELSE /\ HoldsAt(c, u, u.health - Loss(u.health))
                       /\ u.health - Loss(u.health) <= 0 =>
                             \E i \in 2 .. Len(removed) :
                                 removed[i] = [u EXCEPT !.health = u.health - Loss(u.health)]
        /\ \A c \in Cells \ Blast(C) : board[c] = last.before.board[c]

ExactlyTwo(h) == 2
TwoFlooredAtZero(h) == IF h < 2 THEN h ELSE 2

\* C10 as stated: a self-destruct at C removes the unit and takes exactly 2
\* from the health of every unit within Chebyshev distance 1 of C
C10_BlastTakesExactlyTwo == Performed(Kaboom) => SelfDestructed(ExactlyTwo)

\* C10: a self-destruct at C removes the unit and takes 2 from the health of
\* every unit within Chebyshev distance 1 of C, floored at 0 (a unit at
\* health 1 loses 1); units at 0 are removed; the other cells are unchanged
C10_BlastTakesTwoFloored == Performed(Kaboom) => SelfDestructed(TwoFlooredAtZero)

\* a self-destruct with a diagonal neighbour that lost 2 and an orthogonal
\* neighbour that had health 1
C10_Witness ==
    /\ Performed(Kaboom)
    /\ \E c \in Blast(last.mv.dst) :
          /\ last.before.board[c] # None
          /\ last.before.board[c].health = 1
          /\ c # last.mv.dst
    /\ \E c \in Blast(last.mv.dst) :
          /\ c[1] # last.mv.dst[1] /\ c[2] # last.mv.dst[2]
          /\ last.before.board[c] # None
          /\ board[c] # None
          /\ board[c].health = last.before.board[c].health - 2

(* ---------------- C11 ---------------- *)

\* a pair whose source holds a unit of the team to move and whose
\* destination is an empty orthogonally adjacent cell
IntoEmptyNeighbour(mv) ==
    /\ is_coord_valid(mv.src) /\ is_coord_valid(mv.dst)
    /\ are_adjacent_cross(mv.src, mv.dst)
    /\ board[mv.src] # None
    /\ board[mv.src].player = next_player
    /\ board[mv.dst] = None

\* the destination lies toward the home corner of the unit's team
TowardHome(mv) ==
    \/ board[mv.src].player = Defender
       /\ (mv.dst[1] < mv.src[1] \/ mv.dst[2] < mv.src[2])
    \/ board[mv.src].player = Attacker
       /\ (mv.dst[1] > mv.src[1] \/ mv.dst[2] > mv.src[2])

\* C11: an AI, Program or Firewall moving into an empty cell toward its home
\* corner (a Defender decreasing row or column, an Attacker increasing row
\* or column) is classified Invalid, never Move; a Tech or a Virus is
\* classified Move into any empty orthogonally adjacent cell
C11_NoRetreatUnlessFree ==
    \A mv \in MoveInputs :
        IntoEmptyNeighbour(mv) =>
            IF board[mv.src].type \in {Tech, Virus}
            THEN determine_action(Self, mv) = Move
            ELSE TowardHome(mv) => determine_action(Self, mv) = "Invalid"

(* ---------------- C12 ---------------- *)

\* the set of candidates a generator yielded
Yielded(result) == { result.yielded[i] : i \in 1 .. Len(result.yielded) }

\* the unit at c belongs to the team to move, has no free movement and has
\* an enemy unit in an orthogonally adjacent cell
EngagedBound(c) ==
    /\ board[c] # None
    /\ board[c].player = next_player
    /\ board[c].type \in {AI, Program, Firewall}
    /\ \E d \in Cells : /\ are_adjacent_cross(c, d)
                        /\ board[d] # None
                        /\ board[d].player # next_player

\* C12: for a unit without free movement next to an enemy unit,
\* move_candidates holds no Move candidate from the unit's cell, and holds
\* the unit's Attack, Repair and SelfDestruct candidates
C12_EngagedKeepsOtherActions ==
    \A c \in Cells :
        EngagedBound(c) =>
            LET candidates == Yielded(move_candidates(Self, next_player))
            IN  /\ \A e \in candidates : ~ (e[1].src = c /\ e[2] = Move)
                /\ \A mv \in MoveInputs :
                      (mv.src = c /\ FirstMatch(Self, mv) \in {Attack, Repair, Kaboom})
                      => <<mv, FirstMatch(Self, mv)>> \in candidates

(* ---------------- C13 ---------------- *)

\* the pairs of a team that are not Invalid with their kinds, units in scan
\* order and, per unit, the neighbours up, left, down, right, then the
\* unit's own cell
LegalCandidates(g, team) ==
    LET legal(mv) == FirstMatch(g, mv) # "Invalid"
        pairs == SelectSeq(probes(g, team), legal)
    IN  [i \in 1 .. Len(pairs) |-> <<pairs[i], FirstMatch(g, pairs[i])>>]

\* C13: move_candidates(team) yields, once each and in scan order, exactly
\* the (pair, action) whose source holds a unit of the team, whose
\* destination is a neighbour of the source or the source, and whose
\* classification is not Invalid
C13_CandidatesAreTheLegalPairs ==
    \A team \in PlayerTeam :
        move_candidates(Self, team) =
            [yielded |-> LegalCandidates(Self, team), raised |-> FALSE]

(* ---------------- C14 ---------------- *)

\* the default layout with the Attacker to move
DefaultLayout == board = NewGame.board /\ next_player = Attacker

\* the cell of the Attacker's AI on the default layout
Corner == Coord(dim - 1, dim - 1)

C15_OneStatePerCandidate ==
    LET successors == next_state_candidates(Self)
        candidates == LegalCandidates(Self, next_player)
        swapped == [Self EXCEPT !.next_player = PlayerTeam_next(next_player),
                                !.removed = << >>]
    IN  /\ ~ successors.raised
        /\ Len(successors.yielded) = Len(candidates)
        /\ \A i \in 1 .. Len(candidates) :
              successors.yielded[i] =
                  << perform_move(swapped, candidates[i][1], candidates[i][2]).game,
                     candidates[i][1] >>

(* ---------------- C16 ---------------- *)

\* C16: a step on one Game object, a turn or a clone, leaves the board
\* cells, the unit healths and the has-AI flags of every other Game object
\* as they were, whether it is the object's source, its clone or a sibling
C16_ClonesAreIndependent ==
    [][\A k \in 1 .. Len(game_objects) :
          k # acted'.on =>
              state_of(unit_objects', board_objects', game_objects'[k]) = state(k)]_vars

\* two clones of one Game object, an attack having been performed on the
\* second: a unit that lost health there has all of it in the first clone
C16_Witness ==
    /\ Len(game_objects) = 3
    /\ acted.on = 3
    /\ \E c \in Cells :
          /\ state(2).board[c] # None
          /\ state(3).board[c] # None
          /\ state(3).board[c].health < state(2).board[c].health
          /\ state(1).board[c] = state(2).board[c]

(* ---------------- C17 ---------------- *)

\* the call returned the pair of a legal candidate of the team to move in g
ReturnsCandidateOf(outcome, g) ==
    /\ outcome.raised = NoException
    /\ \E i \in 1 .. Len(LegalCandidates(g, g.next_player)) :
          LegalCandidates(g, g.next_player)[i][1] = outcome.action

\* C17: whatever the root state, alpha-beta on or off, the maximal depth
\* and the time on the clock, search_for_best_move returns the action of
\* one of the root's move candidates for the team to move
C17_SearchReturnsRootCandidate ==
    suggested.called =>
        \A with_alpha_beta \in BOOLEAN, depth \in 1 .. max_depth, pick \in 1 .. MaxPick :
            ReturnsCandidateOf(
                search_for_best_move(suggested.root, with_alpha_beta, depth,
                                     suggested.elapsed_time, pick),
                suggested.root)

(* ---------------- C18 ---------------- *)

\* the searches of the state with alpha-beta on and off, the clock at 0
alphabeta_search(depth, pick) == search_for_best_move(Self, TRUE, depth, 0, pick)
minimax_search(depth, pick) == search_for_best_move(Self, FALSE, depth, 0, pick)

\* C18: from the same root state and maximal depth, without time pressure,
\* the alpha-beta search and the minimax search each select a root child,
\* and the two children have the same propagated value
C18_AlphaBetaValueIsMinimaxValue ==
    ~ raised =>
        \A depth \in 1 .. max_depth, pick \in 1 .. MaxPick :
            /\ alphabeta_search(depth, pick).raised = NoException
            /\ minimax_search(depth, pick).raised = NoException
            /\ alphabeta_search(depth, pick).value = minimax_search(depth, pick).value

(* ---------------- C19 ---------------- *)

\* C19: from the same root state and configuration, without time pressure,
\* minimax and alpha-beta select the same action, that of a root child (the
\* first in enumeration order whose value is the extremum of the root's
\* children)
C19_AlphaBetaActionIsMinimaxAction ==
    ~ raised =>
        \A depth \in 1 .. max_depth, pick \in 1 .. MaxPick :
            /\ ReturnsCandidateOf(alphabeta_search(depth, pick), Self)
            /\ ReturnsCandidateOf(minimax_search(depth, pick), Self)
            /\ alphabeta_search(depth, pick).action = minimax_search(depth, pick).action

(* ---------------- C20 ---------------- *)

\* C20: when OutOfTimeException is raised in a move-selection call, no
\* exception leaves the call, and the call returns the action of a legal
\* move of the root: the best-valued root child, or a random legal move
C20_TimeoutStillReturnsAction ==
    (suggested.called /\ out_of_time_check(suggested.elapsed_time).raised = OutOfTimeException)
    => ReturnsCandidateOf(suggested.outcome, suggested.root)

(* ---------------- C21 ---------------- *)

\* C21: determine_action raises for no coordinate pair on any board: every
\* illegal pair (bad coordinates, empty source, wrong owner, non-adjacent,
\* retreating or engaged move, unrecognized shape) is reported as a
\* returned Invalid action kind
C21_IllegalPairsAreReturnedInvalid ==
    \A mv \in MoveInputs :
        /\ determine_action(Self, mv) # AttributeError
        /\ FirstMatch(Self, mv) = "Invalid" => determine_action(Self, mv) = "Invalid"

(* ---------------- C22 ---------------- *)

\* C22: when a move submitted to a turn is classified Invalid, attempt_move
\* reports failure and the board, the unit healths, the has-AI flags,
\* next_player and turns_played are unchanged; no exception ends a turn in
\* which a move was submitted
C22_InvalidMoveFailsAndChangesNothing ==
    /\ \A mv \in MoveInputs :
           FirstMatch(Self, mv) = "Invalid" =>
               LET r == attempt_move(Self, mv)
               IN  /\ r.raised = NoException
                   /\ ~ r.success
                   /\ r.game.board = board
                   /\ r.game.next_player = next_player
                   /\ r.game.turns_played = turns_played
                   /\ r.game.attacker_has_ai = attacker_has_ai
                   /\ r.game.defender_has_ai = defender_has_ai
    /\ raised => suggested.called

(* ---------------- C23 ---------------- *)

\* C23: a turn in which a move is applied hands next_player to the other
\* team and adds exactly 1 to turns_played, the board and the has-AI flags
\* being those attempt_move left; a turn in which no move is applied leaves
\* next_player, turns_played, the board and the flags as they were
C23_AppliedMoveThenOneNextTurn ==
    [][ IF last' # last
        THEN LET r == attempt_move(Self, last'.mv)
             IN  /\ r.success
                 /\ next_player' = PlayerTeam_next(next_player)
                 /\ turns_played' = turns_played + 1
                 /\ board' = r.game.board
                 /\ attacker_has_ai' = r.game.attacker_has_ai
                 /\ defender_has_ai' = r.game.defender_has_ai
        ELSE UNCHANGED <<board, next_player, turns_played, attacker_has_ai,
                         defender_has_ai>> ]_vars

\* an attack was applied after the opening and the turn passed once
C23_Witness ==
    /\ turns_played > Len(script)
    /\ Performed(Attack)
    /\ board # last.before.board
    /\ turns_played = last.before.turns_played + 1
    /\ next_player = PlayerTeam_next(last.before.next_player)

(* ---------------- C24 ---------------- *)

\* C24: the heuristics take one fixed side whoever is to move: a state and
\* any state with the same board that differs in next_player or in
\* turns_played get the same outcome of heuristic_e0 and of heuristic_e1
C24_HeuristicIgnoresWhoseTurn ==
    \E e0 \in {heuristic_e0(Self)}, e1 \in {heuristic_e1(Self)} :
        \A other \in { [Self EXCEPT !.next_player = PlayerTeam_next(next_player)],
                       [Self EXCEPT !.turns_played = max_turns - turns_played],
                       [Self EXCEPT !.next_player = PlayerTeam_next(next_player),
                                    !.turns_played = 0] } :
            \E o1 \in {heuristic_e1(other)} :
                /\ heuristic_e0(other) = e0
                /\ o1.raised = e1.raised
                /\ e1.raised = NoException => o1.value = e1.value

\* heuristic_e1 returns a weighted sum, and a sentinel, in turns of either
\* team after the opening
C24_Witness ==
    /\ turns_played > Len(script)
    /\ next_player = Attacker
    /\ heuristic_e1(Self).raised = NoException
    /\ heuristic_e1(Self).value < 0
    /\ heuristic_e0(Self) # 0

(* ---------------- C25 ---------------- *)

Applicable == { mv \in MoveInputs : attempt_move(Self, mv).success }
Successor(mv) == attempt_move(Self, mv).game

\* C27: when the Defender is to move, a successor in which the Defender's
\* AI is dead gets from heuristic_e1 a value no higher than any successor
\* in which it is alive, so that the maximizing Defender never prefers it
C27_DeadDefenderAIIsNeverPreferred ==
    next_player = Defender =>
        \A dead \in { mv \in Applicable : ~ Successor(mv).defender_has_ai } :
            \A alive \in { mv \in Applicable : Successor(mv).defender_has_ai } :
                (/\ heuristic_e1(Successor(dead)).raised = NoException
                 /\ heuristic_e1(Successor(alive)).raised = NoException)
                => heuristic_e1(Successor(dead)).value
                       <= heuristic_e1(Successor(alive)).value

(* ---------------- C26 ---------------- *)

NodeIds == 1 .. Len(node_objects)

\* the children of a node of the tree
Children(n) == { node_objects[n].children[i] : i \in 1 .. Len(node_objects[n].children) }

\* C26: after a minimax propagation that completes, every leaf carries the
\* value heuristic_e1 gives its own state, every other node carries the
\* value of one of its children, the largest when the Defender is to move
\* in the node's state and the smallest when the Attacker is, and the team
\* to move changes from a node to its children
C26_MinimaxValuesOfTheTree ==
    (searched.algorithm = "minimax" /\ searched.raised = NoException) =>
        \A n \in NodeIds :
            LET node == node_objects[n]
            IN  /\ n # 1 => node.state.next_player
                               # node_objects[node.parent].state.next_player
                /\ node.value # << >>
                /\ IF Children(n) = {}
                   THEN /\ heuristic_e1(node.state).raised = NoException
                        /\ node.value[1] = heuristic_e1(node.state).value
                   ELSE /\ \E c \in Children(n) : node_objects[c].value = node.value
                        /\ \A c \in Children(n) :
                              IF node.state.next_player = Defender
                              THEN node_objects[c].value[1] <= node.value[1]
                              ELSE node_objects[c].value[1] >= node.value[1]

\* a minimax propagation has completed on a tree whose root and one of
\* whose other nodes have children of different values
C26_Witness ==
    /\ searched.algorithm = "minimax"
    /\ searched.raised = NoException
    /\ \E n \in NodeIds \ {1} : \E c, d \in Children(n) :
          node_objects[c].value # node_objects[d].value
    /\ \E c, d \in Children(1) : node_objects[c].value # node_objects[d].value

(* ---------------- C28 ---------------- *)

\* the propagations over the tree as it is, every entry taking tick
RootIsMaximizing == node_objects[1].state.next_player = Defender
AlphaBeta(tick) ==
    alphabeta_propagate_values_up(NewRun(node_objects), 1, - inf, inf,
                                  RootIsMaximizing, tick)
Minimax(tick) ==
    minimax_propagate_values_up(NewRun(node_objects), 1, RootIsMaximizing, tick)

\* the nodes from n up to the root
RECURSIVE Path(_)
Path(n) == IF n = 1 THEN {1} ELSE {n} \cup Path(node_objects[n].parent)

\* n lies in a subtree the run left out at a cut: the loop over the
\* children of a visited node was left, with beta <= alpha, before the
\* child that n is or descends from
CutAbove(n, run) ==
    \E a \in Path(n) \ {1} :
        LET p == node_objects[a].parent
            j == CHOOSE i \in 1 .. Len(node_objects[p].children) :
                     node_objects[p].children[i] = a
        IN  /\ p \in run.visited
            /\ \E cut \in run.cuts :
                  cut.node = p /\ cut.child < j /\ cut.beta <= cut.alpha

C29_ExpandsDownToMaxDepth ==
    \A depth \in 0 .. max_depth :
        /\ levels_generated(Self, depth, 0) = depth
        /\ search_for_best_move(Self, alpha_beta, depth, 0, 1).raised = NoException

(* ---------------- C30 ---------------- *)

\* C30: every entry of a propagation made when the time since the start of
\* the move selection has reached max_time aborts the propagation: it is
\* the last entry of the run and the run ends out of time
C30_AbortsAtTheDeadlineOfTheSearch ==
    searched.algorithm # "None" =>
        \A j \in 0 .. searched.entries - 1 :
            searched.started + j * searched.tick >= 100 * max_time =>
                j = searched.entries - 1 /\ searched.raised = OutOfTimeException

(* ---------------- C31 ---------------- *)

\* the damage of the table, before Unit.damage_amount clamps it to the
\* target's health
unclamped(X, Y) == damage_table[X + 1][Y + 1]

\* the units of the last turn's action
Acting == last.before.board[last.mv.src]
Target == last.before.board[last.mv.dst]

\* the pairs of unit types whose two entries of the table differ
UnequalPairs == { {AI, Tech}, {AI, Virus}, {Tech, Program}, {Virus, Program} }

C32_BothAIsDeadDefenderWins ==
    (~ attacker_has_ai /\ ~ defender_has_ai /\ turns_played < max_turns) =>
        has_winner(Self) = Defender

\* one self-destruction has just killed both AIs, before the turn limit
C32_Witness ==
    /\ Performed(Kaboom)
    /\ last.before.attacker_has_ai
    /\ last.before.defender_has_ai
    /\ AICells(last.before.board, Attacker) # {}
    /\ AICells(last.before.board, Defender) # {}
    /\ ~ attacker_has_ai
    /\ ~ defender_has_ai
    /\ AICells(board, Attacker) = {}
    /\ AICells(board, Defender) = {}
    /\ turns_played < max_turns
    /\ has_winner(Self) = Defender

(* ---------------- C33 ---------------- *)

\* C33: in every state of the live game for which has_winner reports no
\* winner, move_candidates gives the team to move at least one candidate,
\* so move selection and the random fallback never face an empty list
C33_MoverHasACandidate ==
    main.pc = "turn" =>
        /\ ~ move_candidates(Self, next_player).raised
        /\ Len(move_candidates(Self, next_player).yielded) >= 1

(* ---------------- C36 ---------------- *)

\* every turn of the loop ends with a move applied
EveryTurnAppliesAMove == (main.pc = "turn") ~> (main.pc = "loop")

\* C36: provided every turn eventually applies a legal move, the main loop
\* terminates with a winner declared; turns_played never exceeds max_turns
\* (so the winner is declared after at most max_turns applied moves), the
\* winner declared is the one has_winner reports, and no move is applied
\* once has_winner reports a winner
C36_MainLoopTerminates ==
    /\ [](turns_played <= max_turns)
    /\ [](main.pc = "exit" =>
            main.winner # NoWinner /\ main.winner = has_winner(Self))
    /\ [][has_winner(Self) # NoWinner => UNCHANGED Game]_vars
    /\ (EveryTurnAppliesAMove => <>(main.pc = "exit"))

\* the loop has ended at the turn limit with both AIs on the board, the
\* Defender being declared the winner after max_turns moves
C36_Witness ==
    /\ main.pc = "exit"
    /\ main.winner = Defender
    /\ turns_played = max_turns
    /\ attacker_has_ai
    /\ defender_has_ai
    /\ last.before.turns_played = max_turns - 1

(* ---------------- C34 ---------------- *)

\* the candidate Game.next_state_candidates makes of the state before the
\* last turn for the move of that turn
Candidate == next_state(last.before, last.mv)

\* C34: the candidate made for a move has the board, the has-AI flags and
\* the next_player of the live game after attempt_move of that move followed
\* by next_turn on the same starting state, while its turns_played is still
\* the parent's, one less than the live game's
C34_CandidateIsTheLiveSuccessor ==
    last.action \in {Move, Attack, Repair, Kaboom} =>
        /\ Candidate.board = board
        /\ Candidate.attacker_has_ai = attacker_has_ai
        /\ Candidate.defender_has_ai = defender_has_ai
        /\ Candidate.next_player = next_player
        /\ Candidate.turns_played = last.before.turns_played
        /\ turns_played = last.before.turns_played + 1

\* the live game has performed an attack that killed the Defender's AI, and
\* the candidate for the same move has lost it too, one turn behind
C34_Witness ==
    /\ Performed(Attack)
    /\ last.before.defender_has_ai
    /\ ~ defender_has_ai
    /\ ~ Candidate.defender_has_ai
    /\ Candidate.board = board
    /\ Candidate.board # last.before.board
    /\ Candidate.next_player = next_player
    /\ Candidate.turns_played + 1 = turns_played

(* ---------------- C35 ---------------- *)

\* the live game is the first Game object; the others are the clones a
\* move selection makes: the root, and the successors it performs moves on
Live == 1

\* C35: the steps of a move selection, cloning a Game object and performing
\* a move on a clone, leave the live game's board, unit healths, has-AI
\* flags, next_player and turns_played as they were
C35_SearchLeavesTheLiveGame ==
    [][acted'.on # Live =>
          state_of(unit_objects', board_objects', game_objects'[Live]) = state(Live)]_vars

\* a move performed on a clone has cost a team its AI there, in a turn the
\* live game has not played: its flags are both set and its AIs on the board
C35_Witness ==
    /\ acted.on > Live
    /\ ~ (state(acted.on).attacker_has_ai /\ state(acted.on).defender_has_ai)
    /\ state(acted.on).turns_played = state(Live).turns_played + 1
    /\ state(acted.on).next_player # state(Live).next_player
    /\ state(Live).attacker_has_ai
    /\ state(Live).defender_has_ai
    /\ AICells(state(Live).board, Attacker) # {}
    /\ AICells(state(Live).board, Defender) # {}

====
